---- MODULE Spec2Model ----
(***************************************************************************)
(* libvms: a VM (guest script + files archive + call log), the RPC mount   *)
(* that queues calls onto it, and the replay of a call log.                *)
(*                                                                         *)
(* One step of the model is one run-to-completion segment of the node.js   *)
(* event loop: a handler runs from an I/O completion up to the next await  *)
(* on I/O.  Continuations that are only promise reactions run in the same  *)
(* segment as the settlement that triggers them.                           *)
(***************************************************************************)
EXTENDS Integers, Sequences, FiniteSets, TLC

VARIABLES vms, calls, disk, mounts, replay, nextUrl, exited, started, entropy,
          factory, provs

vars == <<vms, calls, disk, mounts, replay, nextUrl, exited, started, entropy,
          factory, provs>>

(* ------------------------------ bounds --------------------------------- *)

\* RPC invocations the clients issue in one run of Spec
MaxCalls == 3

\* RPC invocations the clients issue in one run of SpecLife
MaxLifeCalls == 2

\* RPC invocations the clients issue before the replay in one run of SpecReplay
MaxReplayCalls == 2

\* RPC invocations the clients issue before the replay in one run of SpecRandom
MaxRandomCalls == 2

\* RPC invocations the clients issue in one run of SpecQueue
MaxQueueCalls == 4

\* RPC invocations the clients issue in one run of SpecClose
MaxCloseCalls == 1

\* invocations of provisionVM in one run of SpecFactory
MaxProvisions == 3

\* the queue limit of queueRPCCall (MAX_QUEUE_LENGTH, 1e3 in the source),
\* scaled down so that a run reaches it
MAX_QUEUE_LENGTH == 1

\* calls a client issues to a VM mounted under two paths
MaxMountCalls == 3

\* calls a client issues to the methods that throw or write twice
MaxGuestCalls == 2

\* calls a client issues in the runs that check that calls settle
MaxSettleCalls == 2

\* shutdownVM invocations
MaxShutdowns == 2

(* ----------------------------- constants ------------------------------- *)

RPC_METHODS_BLACKLIST == {"init"}

VMIds == {"vm1", "vm2"}

Dirs == {"d1", "d2"}

MountPaths == {"/vm1", "/vm2"}

\* the path the tests mount their vm at
TestPaths == {"/vm1"}

FilePaths == {"/file", "/init"}

NoVM == "none"

NoDir == "null"

\* no url: meta.json absent, or no archive in the directory
NoUrl == 0

\* no call (activeCall === null)
NoCall == 0

(* --------------------------- guest scripts ----------------------------- *)
(* The scripts are inputs.  Every script exports                           *)
(*   func1 = (v = 0) => v + 1                                              *)
(*   writeToFile = (v) => System.files.writeFile('/file', v)               *)
(*   fail = () => { throw new Error('fail') }                              *)
(*   getWasCalled = () => wasCalled                                        *)
(*   random = () => System.test.random()                                   *)
(*   var = 'bar'                                                           *)
(*   throwZero = () => { throw 0 }                                         *)
(*   throwUndefined = () => { throw undefined }                            *)
(*   writeTwice = async (v) => { await System.files.writeFile('/file', v); *)
(*     await System.files.writeFile('/init', v) }                          *)
(* "A" exports no init; "B" exports init = () => { wasCalled = true };     *)
(* "C" exports init = async () => { await System.files.writeFile('/init',  *)
(*   1); await sleep(); wasCalled = true }.                                *)

Scripts == {"A", "B", "C"}

ExportNames(code) ==
  {"func1", "writeToFile", "fail", "getWasCalled", "random", "var",
   "throwZero", "throwUndefined", "writeTwice"}
    \cup (IF code \in {"B", "C"} THEN {"init"} ELSE {})

\* typeof exports[m] === 'function'
IsFunction(code, m) == m \in ExportNames(code) /\ m # "var"

\* the awaits on I/O of a guest method, in order
GuestOps(code, m, args) ==
  IF m = "writeToFile"
    THEN << [op |-> "write", path |-> "/file", data |-> args] >>
  ELSE IF m = "writeTwice"
    THEN << [op |-> "write", path |-> "/file", data |-> args],
            [op |-> "write", path |-> "/init", data |-> args] >>
  ELSE IF m = "init" /\ code = "C"
    THEN << [op |-> "write", path |-> "/init", data |-> <<1>>],
            [op |-> "sleep"] >>
  ELSE << >>

\* the value the method returns; <<>> is undefined
GuestResult(code, m, args, wasCalled) ==
  IF m = "func1" THEN << (IF args = << >> THEN 0 ELSE args[1]) + 1 >>
  ELSE IF m = "getWasCalled" THEN << IF wasCalled THEN 1 ELSE 0 >>
  ELSE << >>

\* whether the method throws
GuestThrows(code, m) == m \in {"fail", "throwZero", "throwUndefined"}

\* the value the method throws; <<>> is undefined, "0" the number 0
GuestThrow(code, m) ==
  IF m = "fail" THEN << "fail" >>
  ELSE IF m = "throwZero" THEN << "0" >>
  ELSE << >>

\* the thrown values that `if (err)` takes for false: undefined, 0, '', null
Falsy(err) == err = << >> \/ err[1] \in {"0", "", "null"}

\* the invocations the clients issue: <<methodName, args, meta.user_id>>;
\* the user "undefined" is a call without user id
RpcInputs ==
  { << "func1", <<5>>, "undefined" >>, << "func1", <<5>>, "bob" >>,
    << "writeToFile", <<1>>, "undefined" >>, << "writeToFile", <<2>>, "bob" >>,
    << "fail", << >>, "undefined" >>, << "getWasCalled", << >>, "bob" >>,
    << "init", << >>, "undefined" >> }

\* the invocations of the runs with a guest that is not deterministic
RandomInputs ==
  { << "random", << >>, "undefined" >>, << "func1", <<5>>, "bob" >> }

\* the invocations of the runs that fill the queue
QueueInputs ==
  { << "func1", <<5>>, "bob" >>, << "writeToFile", <<1>>, "undefined" >>,
    << "init", << >>, "undefined" >> }

\* the invocations of the runs that close and redeploy
LifeInputs ==
  { << "func1", <<5>>, "bob" >>, << "writeToFile", <<1>>, "undefined" >>,
    << "fail", << >>, "undefined" >> }

\* the url that the init entry of a log given to fromCallLog asserts
GivenUrl == 7

\* a call entry of a log given to fromCallLog
GivenCall(in) ==
  [ type |-> "call", methodName |-> in[1], args |-> in[2], userId |-> in[3],
    res |-> << >>, err |-> << >>, filesVersion |-> 1 ]

\* an entry of a type that this version does not know; it has no `call`
UnknownEntry == [ type |-> "note" ]

\* the logs given to fromCallLog: empty, starting with a call entry, with the
\* init entry in second place, starting with an init entry, and holding an
\* entry of an unknown type before or after a call entry
GivenLogs ==
  LET cs == { << >> } \cup { << GivenCall(a) >> : a \in LifeInputs }
                     \cup { << GivenCall(a), GivenCall(b) >> :
                              a \in LifeInputs, b \in LifeInputs }
  IN cs \cup { << GivenCall(a), [ type |-> "init", code |-> "B",
                                 filesArchiveUrl |-> GivenUrl ] >> :
                 a \in LifeInputs }
        \cup { << [ type |-> "init", code |-> code,
                    filesArchiveUrl |-> GivenUrl ] >> \o s :
                 code \in Scripts, s \in cs }
        \cup { << [ type |-> "init", code |-> "A",
                    filesArchiveUrl |-> GivenUrl ] >> \o s :
                 s \in { << UnknownEntry, GivenCall(a) >> : a \in LifeInputs }
                    \cup { << GivenCall(a), UnknownEntry >> :
                             a \in LifeInputs } }

\* the invocations of the runs with methods that throw any value or perform
\* several writes
GuestInputs ==
  { << "fail", << >>, "bob" >>, << "throwZero", << >>, "undefined" >>,
    << "throwUndefined", << >>, "bob" >>, << "func1", <<5>>, "undefined" >>,
    << "writeTwice", <<1>>, "bob" >> }

(* ------------------------------ state ---------------------------------- *)

\* new VM(code): the constructor's fields; exists is FALSE before construction.
\* For the properties: closedArchive and closedLog count the calls of
\* filesArchive._close() and callLog.close(), closeEvents the `close` events
\* emitted, closeReturned is whether an invocation of close has completed
NoVMObject ==
  [ exists |-> FALSE, code |-> "A", dir |-> NoDir, filesArchive |-> FALSE,
    callLog |-> FALSE, hasEvaluated |-> FALSE, hasClosed |-> FALSE,
    closing |-> "no", currentUser |-> "undefined", wasCalled |-> FALSE,
    closedArchive |-> 0, closedLog |-> 0, closeEvents |-> 0,
    closeReturned |-> FALSE, ready |-> FALSE ]

NewVM(code) == [ NoVMObject EXCEPT !.exists = TRUE, !.code = code ]

EmptyFiles == [ p \in FilePaths |-> << >> ]

\* a directory without meta.json, archive or call log
EmptyDir ==
  [ meta |-> NoUrl, url |-> NoUrl, version |-> 0, files |-> EmptyFiles,
    log |-> << >>, rec |-> << >> ]

\* new MountedVM(path, vm), before any mount: vm is NoVM
NoMount ==
  [ vm |-> NoVM, callQueue |-> << >>, activeCall |-> NoCall,
    registered |-> {}, methods |-> {} ]

\* the locals of fromCallLog: assertion is assertions.filesArchiveUrl
\* new VMFactory(code, {maxVMs}): the fields the subclass adds, and dir of
\* VM; exists is FALSE before construction.  maxVMs is << >> when undefined.
\* listeners are the children with the factory's `close` listener
NoFactory ==
  [ exists |-> FALSE, maxVMs |-> << >>, rpcServer |-> FALSE, VMs |-> {},
    numVMs |-> 0, dir |-> NoDir, listeners |-> {},
    filesArchive |-> FALSE, callLog |-> FALSE, hasClosed |-> FALSE,
    closing |-> "no", closeReturned |-> FALSE, shuts |-> << >>,
    reprov |-> "no", saved |-> << >>, reading |-> {}, reprovd |-> << >> ]

IdleReplay ==
  [ pc |-> "idle", entries |-> << >>, i |-> 0, vm |-> NoVM,
    assertion |-> NoUrl, log |-> << >>, err |-> << >> ]

Init ==
  /\ vms = [ v \in VMIds |-> NoVMObject ]
  /\ calls = << >>
  /\ disk = [ d \in Dirs |-> EmptyDir ]
  /\ mounts = [ p \in MountPaths |-> NoMount ]
  /\ replay = IdleReplay
  /\ nextUrl = 1
  /\ exited = FALSE
  /\ started = << >>
  /\ entropy = 0
  /\ factory = NoFactory
  /\ provs = << >>

\* the whole state as one value, so that a handler's calls compose
World ==
  [ vms |-> vms, calls |-> calls, disk |-> disk, mounts |-> mounts,
    replay |-> replay, nextUrl |-> nextUrl, exited |-> exited,
    started |-> started, entropy |-> entropy, factory |-> factory,
    provs |-> provs ]

Commit(w) ==
  \E n \in { w } :
    /\ vms' = n.vms
    /\ calls' = n.calls
    /\ disk' = n.disk
    /\ mounts' = n.mounts
    /\ replay' = n.replay
    /\ nextUrl' = n.nextUrl
    /\ exited' = n.exited
    /\ started' = n.started
    /\ entropy' = n.entropy
    /\ factory' = n.factory
    /\ provs' = n.provs

\* an invocation: the queue entry {resolve, reject, methodName, args, userId}
\* of queueRPCCall, or the argument of a direct executeCall.  Its progress:
\* st, pc (the await the guest method is at), res and err.  For the
\* properties: muts counts its successful mutating System.files operations,
\* v0 is the archive version when it started, logged whether its entry was
\* appended, waited whether it was queued behind an active call, threw
\* whether executeCall threw rather than returned.
NewCall(vm, origin, path, methodName, args, userId) ==
  [ vm |-> vm, origin |-> origin, path |-> path, methodName |-> methodName,
    args |-> args, userId |-> userId, st |-> "queued", pc |-> 0,
    res |-> << >>, err |-> << >>, muts |-> 0, logged |-> FALSE,
    v0 |-> 0, waited |-> FALSE, threw |-> FALSE ]

(* ------------------------------ call log ------------------------------- *)

\* System.test.random of a VM in test mode: Math.random, which returns what
\* the state of the host's generator gives
SystemTestRandom(w) == w.entropy

InitEntry(code, url) ==
  [ type |-> "init", code |-> code, filesArchiveUrl |-> url ]

\* appendCall given no result
CallEntry_NoRes(c, res, err, filesVersion) ==
  [ type |-> "call", methodName |-> c.methodName, args |-> c.args,
    userId |-> c.userId, res |-> << >>, err |-> err,
    filesVersion |-> filesVersion ]

CallEntry(c, res, err, filesVersion) ==
  [ type |-> "call", methodName |-> c.methodName, args |-> c.args,
    userId |-> c.userId, res |-> res, err |-> err,
    filesVersion |-> filesVersion ]

\* CallLog.create(dir, code, filesArchiveUrl): a fresh log holding the init entry
CallLogCreate(w, dir, code, url) ==
  [ w EXCEPT !.disk[dir].log = << InitEntry(code, url) >>,
             !.disk[dir].rec = << NoCall >> ]

\* callLog.appendCall(...): the entry is committed at the end of the log
CallLogAppendCall(w, dir, id, entry) ==
  [ w EXCEPT !.disk[dir].log = Append(@, entry),
             !.disk[dir].rec = Append(@, id) ]

(* ----------------------------- executeCall ----------------------------- *)

\* createNewSandbox: System.caller.id is a getter of vm[CURRENT_USER]
SystemCallerId(w, vm) == w.vms[vm].currentUser

RECURSIVE Finish(_, _)

\* executeCall logging a call only when the guest method returned
AppendCall_OnlyOnSuccess(w, id, res, err) ==
  IF err # << >>
    THEN Finish([ w EXCEPT !.calls[id].err = err ], id)
    ELSE LET c == w.calls[id]
             v == w.vms[c.vm]
             w1 == CallLogAppendCall(w, v.dir, id,
                     CallEntry(c, res, err, w.disk[v.dir].version))
         IN [ w1 EXCEPT !.calls[id].st = "append", !.calls[id].res = res,
                        !.calls[id].logged = TRUE ]

\* executeCall reading the archive version before it calls the method
AppendCall_VersionBefore(w, id, res, err) ==
  LET c == w.calls[id]
      v == w.vms[c.vm]
      w1 == CallLogAppendCall(w, v.dir, id, CallEntry(c, res, err, c.v0))
  IN [ w1 EXCEPT !.calls[id].st = "append", !.calls[id].res = res,
                 !.calls[id].err = err, !.calls[id].logged = TRUE ]

\* executeCall lines 277-289: log the results, then return or throw
AppendCall(w, id, res, err) ==
  LET c == w.calls[id]
      v == w.vms[c.vm]
  IN IF v.callLog /\ v.filesArchive
       THEN LET entry == CallEntry(c, res, err, w.disk[v.dir].version)
                w1 == CallLogAppendCall(w, v.dir, id, entry)
            IN [ w1 EXCEPT !.calls[id].st = "append",
                           !.calls[id].res = res,
                           !.calls[id].err = err,
                           !.calls[id].logged = TRUE ]
       ELSE \* this.callLog or this.filesArchive is null: a TypeError
            Finish([ w EXCEPT !.calls[id].res = << >>,
                              !.calls[id].err = << "TypeError" >> ], id)

\* executeCall passing the thrown value to appendCall as the result too
GuestReturn_ResAndErr(w, id) ==
  LET c == w.calls[id]
      v == w.vms[c.vm]
      thrown == GuestThrow(v.code, c.methodName)
      wc == IF c.methodName = "init" THEN TRUE ELSE v.wasCalled
      w1 == [ w EXCEPT !.vms[c.vm].wasCalled = wc ]
  IN IF GuestThrows(v.code, c.methodName)
       THEN AppendCall(w, id, thrown, thrown)
     ELSE IF c.methodName = "random"
       THEN AppendCall(w1, id, << SystemTestRandom(w) >>, << >>)
     ELSE AppendCall(w1, id, GuestResult(v.code, c.methodName, c.args, wc), << >>)

\* the guest method ran to its end (it returned or threw)
GuestReturn(w, id) ==
  LET c == w.calls[id]
      v == w.vms[c.vm]
      thrown == GuestThrow(v.code, c.methodName)
      wc == IF c.methodName = "init" THEN TRUE ELSE v.wasCalled
      w1 == [ w EXCEPT !.vms[c.vm].wasCalled = wc ]
  IN IF GuestThrows(v.code, c.methodName)
       THEN AppendCall(w, id, << >>, thrown)
     ELSE IF c.methodName = "random"
       THEN AppendCall(w1, id, << SystemTestRandom(w) >>, << >>)
     ELSE AppendCall(w1, id, GuestResult(v.code, c.methodName, c.args, wc), << >>)

\* executeCall lines 263-275: set the caller, call the exported method
ExecuteCall(w, id) ==
  LET c == w.calls[id]
      v == w.vms[c.vm]
      w1 == [ w EXCEPT !.vms[c.vm].currentUser = c.userId,
                       !.started = Append(@, id),
                       !.calls[id].v0 = w.disk[v.dir].version ]
  IN IF ~IsFunction(v.code, c.methodName)
       THEN AppendCall(w1, id, << >>, << "TypeError" >>)
     ELSE IF GuestOps(v.code, c.methodName, c.args) = << >>
       THEN GuestReturn(w1, id)
     ELSE [ w1 EXCEPT !.calls[id].st = "guest", !.calls[id].pc = 1 ]

(* ------------------------------ rpc server ----------------------------- *)

\* kickCallQueue without the activeCall guard
KickCallQueue_NoGuard(w, path) ==
  LET m == w.mounts[path]
  IN IF m.callQueue = << >> THEN w
     ELSE ExecuteCall([ w EXCEPT !.mounts[path].activeCall = Head(m.callQueue),
                                 !.mounts[path].callQueue = Tail(m.callQueue) ],
                      Head(m.callQueue))

\* kickCallQueue running the newest queued call (pop instead of shift)
KickCallQueue_Pop(w, path) ==
  LET m == w.mounts[path]
      n == Len(m.callQueue)
  IN IF m.activeCall # NoCall THEN w
     ELSE IF m.callQueue = << >> THEN w
     ELSE ExecuteCall([ w EXCEPT !.mounts[path].activeCall = m.callQueue[n],
                                 !.mounts[path].callQueue = SubSeq(m.callQueue, 1, n - 1) ],
                      m.callQueue[n])

\* MountedVM.kickCallQueue, up to the await of executeCall
KickCallQueue(w, path) ==
  LET m == w.mounts[path]
  IN IF m.activeCall # NoCall THEN w
     ELSE IF m.callQueue = << >> THEN w
     ELSE ExecuteCall([ w EXCEPT !.mounts[path].activeCall = Head(m.callQueue),
                                 !.mounts[path].callQueue = Tail(m.callQueue) ],
                      Head(m.callQueue))

\* the replay loop calling executeCall({methodName, args}) without the userId
ReplayLoop_NoUserId(w) ==
  LET r == w.replay
  IN IF r.i > Len(r.entries)
       THEN [ w EXCEPT !.replay.pc = "done" ]
     ELSE LET msg == r.entries[r.i]
          IN IF msg.type # "call"
               THEN [ w EXCEPT !.replay.pc = "failed",
                               !.replay.err = << "TypeError" >> ]
               ELSE ExecuteCall(
                      [ w EXCEPT !.replay.i = r.i + 1,
                                 !.calls = Append(@,
                                   NewCall(r.vm, "replay", "", msg.methodName,
                                           msg.args, "undefined")) ],
                      Len(w.calls) + 1)

\* fromCallLog lines 313-333: replay the next entry, or return the vm
ReplayLoop(w) ==
  LET r == w.replay
  IN IF r.i > Len(r.entries)
       THEN [ w EXCEPT !.replay.pc = "done" ]
     ELSE LET msg == r.entries[r.i]
          IN IF msg.type # "call"
               THEN \* msg.call is undefined: the destructuring throws
                    [ w EXCEPT !.replay.pc = "failed",
                               !.replay.err = << "TypeError" >> ]
               ELSE ExecuteCall(
                      [ w EXCEPT !.replay.i = r.i + 1,
                                 !.calls = Append(@,
                                   NewCall(r.vm, "replay", "", msg.methodName,
                                           msg.args, msg.userId)) ],
                      Len(w.calls) + 1)

\* kickCallQueue without the try/catch: a call that throws leaves activeCall
\* set and the queue is not kicked again
Finish_NoCatch(w, id) ==
  LET c == w.calls[id]
      w1 == [ w EXCEPT !.calls[id].st = "done",
                       !.calls[id].threw = ~Falsy(c.err) ]
  IN IF c.origin = "rpc"
       THEN IF ~Falsy(c.err) THEN w1
            ELSE KickCallQueue([ w1 EXCEPT !.mounts[c.path].activeCall = NoCall ],
                               c.path)
     ELSE IF c.origin = "replay"
       THEN ReplayLoop(w1)
     ELSE w1

\* executeCall has settled, `if (err) throw err; return res`: the
\* continuation of whoever awaited it
Finish(w, id) ==
  LET c == w.calls[id]
      w1 == [ w EXCEPT !.calls[id].st = "done",
                       !.calls[id].threw = ~Falsy(c.err) ]
  IN IF c.origin = "rpc"
       THEN \* kickCallQueue lines 133-139
            KickCallQueue([ w1 EXCEPT !.mounts[c.path].activeCall = NoCall ], c.path)
     ELSE IF c.origin = "replay"
       THEN ReplayLoop(w1)
     ELSE w1

\* queueRPCCall pushing the call before it checks the length of the queue
QueueRPCCallOp_PushFirst(w, path, methodName, args, userId) ==
  LET m == w.mounts[path]
      c == NewCall(m.vm, "rpc", path, methodName, args, userId)
      id == Len(w.calls) + 1
  IN IF Len(m.callQueue) + 1 > MAX_QUEUE_LENGTH
       THEN [ w EXCEPT !.calls = Append(@, [ c EXCEPT !.st = "rejected",
                                                     !.err = << "capacity" >> ]),
                       !.mounts[path].callQueue = Append(@, id) ]
     ELSE IF methodName \in RPC_METHODS_BLACKLIST
       THEN [ w EXCEPT !.calls = Append(@, [ c EXCEPT !.st = "rejected",
                                                     !.err = << "not supported" >> ]) ]
     ELSE KickCallQueue(
            [ w EXCEPT !.calls = Append(@, [ c EXCEPT !.waited = (m.activeCall # NoCall) ]),
                       !.mounts[path].callQueue = Append(@, id) ],
            path)

\* MountedVM.queueRPCCall
QueueRPCCallOp(w, path, methodName, args, userId) ==
  LET m == w.mounts[path]
      c == NewCall(m.vm, "rpc", path, methodName, args, userId)
      id == Len(w.calls) + 1
  IN IF Len(m.callQueue) > MAX_QUEUE_LENGTH
       THEN [ w EXCEPT !.calls = Append(@, [ c EXCEPT !.st = "rejected",
                                                     !.err = << "capacity" >> ]) ]
     ELSE IF methodName \in RPC_METHODS_BLACKLIST
       THEN [ w EXCEPT !.calls = Append(@, [ c EXCEPT !.st = "rejected",
                                                     !.err = << "not supported" >> ]) ]
     ELSE KickCallQueue(
            [ w EXCEPT !.calls = Append(@, [ c EXCEPT !.waited = (m.activeCall # NoCall) ]),
                       !.mounts[path].callQueue = Append(@, id) ],
            path)

\* RPCServer.mount with the server listening: MountedVM.register
MountOp(w, path, vm) ==
  LET code == w.vms[vm].code
      fns == { n \in ExportNames(code) : IsFunction(code, n) }
  IN [ w EXCEPT !.mounts[path] =
         [ NoMount EXCEPT !.vm = vm, !.registered = fns,
                          !.methods = fns \ RPC_METHODS_BLACKLIST ] ]

(* -------------------------------- deploy ------------------------------- *)

\* evaluate(vm): at most once per VM object
Evaluate(w, vm) ==
  IF w.vms[vm].hasEvaluated THEN w
  ELSE [ w EXCEPT !.vms[vm].hasEvaluated = TRUE, !.vms[vm].wasCalled = FALSE ]

\* deploy lines 249-252: the init call is started and not awaited
CallInit(w, vm) ==
  IF "init" \in ExportNames(w.vms[vm].code)
    THEN ExecuteCall([ w EXCEPT !.calls = Append(@,
                         NewCall(vm, "init", "", "init", << >>, "undefined")) ],
                     Len(w.calls) + 1)
    ELSE w

\* deploy seeding the log with an init entry when it reopens a directory
OpenExisting_AppendsInit(w, vm, dir) ==
  [ w EXCEPT !.vms[vm].filesArchive = TRUE, !.vms[vm].callLog = TRUE,
             !.disk[dir].log = Append(@, InitEntry(w.vms[vm].code, w.disk[dir].meta)),
             !.disk[dir].rec = Append(@, NoCall) ]

\* deploy lines 227-231: the files archive already exists; open it and the log
OpenExisting(w, vm, dir) ==
  [ w EXCEPT !.vms[vm].filesArchive = TRUE, !.vms[vm].callLog = TRUE ]

\* deploy lines 233-240: new files archive, new call log, meta.json
CreateNew(w, vm, dir, code) ==
  LET u == w.nextUrl
      w1 == [ w EXCEPT !.nextUrl = u + 1,
                       !.disk[dir].url = u,
                       !.disk[dir].version = 1,
                       !.disk[dir].files = EmptyFiles,
                       !.vms[vm].filesArchive = TRUE ]
      w2 == CallLogCreate(w1, dir, code, u)
  IN [ w2 EXCEPT !.vms[vm].callLog = TRUE, !.disk[dir].meta = u ]

\* deploy line 254: this.emit('ready'), after which deploy resolves
EmitReady(w, vm) == [ w EXCEPT !.vms[vm].ready = TRUE ]

\* VM.deploy({dir, title, url}) of a newly constructed VM(code); url = NoUrl
\* when the caller gives none
DeployOp(w, vm, dir, code, url) ==
  LET meta == w.disk[dir].meta
      w0 == [ w EXCEPT !.vms[vm] = [ NewVM(code) EXCEPT !.dir = dir ] ]
  IN IF meta # NoUrl
       THEN IF url # NoUrl /\ meta # url
              THEN [ w0 EXCEPT !.exited = TRUE ]      \* process.exit(1)
              ELSE EmitReady(
                     CallInit(Evaluate(OpenExisting(w0, vm, dir), vm), vm), vm)
       ELSE EmitReady(
              CallInit(Evaluate(CreateNew(w0, vm, dir, code), vm), vm), vm)

\* fromCallLog comparing the urls after it has deployed the vm
FromCallLogOp_CheckAfterDeploy(w, log, assertUrl, vm, dir) ==
  LET w0 == [ w EXCEPT !.replay.assertion = assertUrl, !.replay.log = log ]
  IN IF log = << >>
       THEN [ w0 EXCEPT !.replay.pc = "failed",
                        !.replay.err = << "TypeError" >> ]
     ELSE LET initMsg == Head(log)
              w1 == DeployOp([ w0 EXCEPT !.replay.pc = "running",
                                         !.replay.entries = Tail(log),
                                         !.replay.i = 1, !.replay.vm = vm ],
                             vm, dir, initMsg.code, NoUrl)
          IN IF initMsg.type # "init"
               THEN [ w0 EXCEPT !.replay.pc = "failed",
                                !.replay.err = << "Malformed call log" >> ]
             ELSE IF initMsg.filesArchiveUrl # assertUrl
               THEN [ w1 EXCEPT !.replay.pc = "failed",
                                !.replay.err = << "Mismatched files archive URLs" >> ]
             ELSE ReplayLoop(w1)

\* VM.fromCallLog(callLog, assertions, {dir}) up to the first await of the loop
FromCallLogOp(w, log, assertUrl, vm, dir) ==
  LET w0 == [ w EXCEPT !.replay.assertion = assertUrl, !.replay.log = log ]
  IN IF log = << >>
       THEN \* entries.shift() is undefined: initMsg.type throws
            [ w0 EXCEPT !.replay.pc = "failed",
                        !.replay.err = << "TypeError" >> ]
     ELSE LET initMsg == Head(log)
          IN IF initMsg.type # "init"
               THEN [ w0 EXCEPT !.replay.pc = "failed",
                                !.replay.err = << "Malformed call log" >> ]
             ELSE IF initMsg.filesArchiveUrl # assertUrl
               THEN [ w0 EXCEPT !.replay.pc = "failed",
                                !.replay.err = << "Mismatched files archive URLs" >> ]
             ELSE ReplayLoop(
                    DeployOp([ w0 EXCEPT !.replay.pc = "running",
                                         !.replay.entries = Tail(log),
                                         !.replay.i = 1, !.replay.vm = vm ],
                             vm, dir, initMsg.code, NoUrl))

\* the listener decrementing numVMs without deleting the child
OnChildClose_KeepsChild(w, vm) ==
  IF vm \in w.factory.listeners
    THEN [ w EXCEPT !.factory.numVMs = @ - 1 ]
    ELSE w

\* provisionVM's listener of a child's `close`: numVMs--, delete VMs[vm.id]
OnChildClose(w, vm) ==
  IF vm \in w.factory.listeners
    THEN [ w EXCEPT !.factory.numVMs = @ - 1, !.factory.VMs = @ \ {vm} ]
    ELSE w

\* VM.close line 196: emit 'close', and the invocation completes
EmitClose(w, vm) ==
  OnChildClose(
    [ w EXCEPT !.vms[vm].closing = "done", !.vms[vm].closeEvents = @ + 1,
               !.vms[vm].closeReturned = TRUE ], vm)

\* VM.close lines 190-193: call callLog.close() if there is a log
CloseLog(w, vm) ==
  IF w.vms[vm].callLog
    THEN [ w EXCEPT !.vms[vm].closing = "log", !.vms[vm].closedLog = @ + 1 ]
    ELSE EmitClose(w, vm)

\* VM.close up to its first await
CloseOp(w, vm) ==
  LET v == w.vms[vm]
      w1 == [ w EXCEPT !.vms[vm].hasClosed = TRUE ]
  IN IF v.hasClosed THEN [ w EXCEPT !.vms[vm].closeReturned = TRUE ]
     ELSE IF v.filesArchive
       THEN [ w1 EXCEPT !.vms[vm].closing = "archive",
                        !.vms[vm].closedArchive = @ + 1 ]
     ELSE CloseLog(w1, vm)

\* VM.close lines 186-193: filesArchive._close() has resolved
CloseArchiveDoneOp(w, vm) ==
  CloseLog([ w EXCEPT !.vms[vm].filesArchive = FALSE ], vm)

\* VM.close lines 191-196: callLog.close() has resolved; emit 'close'
CloseLogDoneOp(w, vm) ==
  EmitClose([ w EXCEPT !.vms[vm].callLog = FALSE ], vm)

(* ------------------------------ vm factory ----------------------------- *)

\* path.join(this.dir, vm.id): the directory of a child
ChildDir(vm) == IF vm = "vm1" THEN "d1" ELSE "d2"

\* '/' + vm.id: the mount path of a child
ChildPath(vm) == IF vm = "vm1" THEN "/vm1" ELSE "/vm2"

\* callLog.url: the url of the call log kept in a directory
CallLogUrl(dir) == << "callLog", dir >>

\* the values of maxVMs given to the constructor; << >> is none
MaxVMsInputs == { << >>, <<0>>, <<1>>, <<2>> }

\* the codes given to provisionVM
CodeInputs == Scripts \cup { "" }

\* the names a factory script exports
FactoryExports == { "provisionVM", "shutdownVM" }

\* an invocation of provisionVM({code, title}): vm is the child it
\* constructs, st its progress, err what it throws, ret what it returns.
\* For the properties: n0 is numVMs when it was invoked
NewProvision(code, numVMs) ==
  [ code |-> code, vm |-> NoVM, st |-> "check", err |-> << >>,
    ret |-> << >>, n0 |-> numVMs ]

FailProvision(w, k, err) ==
  [ w EXCEPT !.provs[k].st = "failed", !.provs[k].err = << err >> ]

\* provisionVM up to the await of vm.deploy
ProvisionVMOp(w, code, vm) ==
  LET f == w.factory
      k == Len(w.provs) + 1
      w0 == [ w EXCEPT !.provs = Append(@, NewProvision(code, f.numVMs)) ]
  IN IF f.maxVMs # << >> /\ f.maxVMs[1] # 0 /\ ~(f.numVMs < f.maxVMs[1])
       THEN FailProvision(w0, k, "capacity")
     ELSE IF code = ""
       THEN FailProvision(w0, k, "Code is required")
     ELSE LET w1 == [ w0 EXCEPT !.vms[vm] = NewVM(code), !.provs[k].vm = vm ]
          IN IF f.dir = NoDir
               THEN FailProvision(w1, k, "TypeError")   \* path.join(null, id)
               ELSE [ DeployOp(w1, vm, ChildDir(vm), code, NoUrl)
                        EXCEPT !.provs[k].st = "deploy" ]

\* provisionVM mounting the factory itself at the path of the child
ProvisionDeployedOp_MountsFactory(w, k) ==
  LET vm == w.provs[k].vm
      dir == ChildDir(vm)
      w1 == [ w EXCEPT !.factory.numVMs = @ + 1,
                       !.factory.VMs = @ \cup {vm},
                       !.factory.listeners = @ \cup {vm},
                       !.mounts[ChildPath(vm)] =
                         [ NoMount EXCEPT !.vm = "factory",
                                          !.registered = FactoryExports,
                                          !.methods = FactoryExports ] ]
  IN [ w1 EXCEPT !.provs[k].st = "done",
                 !.provs[k].ret = [ id |-> vm, callLogUrl |-> CallLogUrl(dir),
                                    filesArchiveUrl |-> w.disk[dir].url ] ]

\* provisionVM after vm.deploy has resolved: count and register the child,
\* listen to its `close`, mount it, return its id and urls
ProvisionDeployedOp(w, k) ==
  LET vm == w.provs[k].vm
      dir == ChildDir(vm)
      w1 == [ w EXCEPT !.factory.numVMs = @ + 1,
                       !.factory.VMs = @ \cup {vm},
                       !.factory.listeners = @ \cup {vm} ]
  IN IF ~w.factory.rpcServer
       THEN FailProvision(w1, k, "TypeError")      \* this.rpcServer is null
     ELSE LET w2 == MountOp(w1, ChildPath(vm), vm)
          IN IF ~(w.vms[vm].callLog /\ w.vms[vm].filesArchive)
               THEN FailProvision(w2, k, "TypeError")
               ELSE [ w2 EXCEPT !.provs[k].st = "done",
                                !.provs[k].ret =
                                  [ id |-> vm, callLogUrl |-> CallLogUrl(dir),
                                    filesArchiveUrl |-> w.disk[dir].url ] ]

\* the records saved under /vms that a restarted host finds: the args
\* (the code) of earlier provisionVM calls
SavedInputs == { << "A" >>, << "C" >>, << "A", "C" >>, << "C", "A" >> }

\* reprovisionSavedVMs up to its first await, of filesArchive.readdir('/vms').
\* reprov is its progress, saved what readdir will return; for the
\* properties, reprovd[k] is the provisionVM invocation made for record k
ReprovisionOp(w, saved) ==
  [ w EXCEPT !.factory.reprov = "readdir", !.factory.saved = saved,
             !.factory.reprovd = [ k \in 1..Len(saved) |-> 0 ] ]

\* readdir has resolved: map starts one async callback per file name, each
\* of which suspends at its readFile; `await` of the array that map returns
\* (an array is not a promise) resumes at once, and reprovisionSavedVMs
\* completes
ReprovisionReaddirDoneOp(w) ==
  [ w EXCEPT !.factory.reading = 1..Len(w.factory.saved),
             !.factory.reprov = "done" ]

\* the readFile of the callback of record k has resolved: it calls
\* provisionVM(data.args); vm is the id of the VM that constructs
ReprovisionReadFileDoneOp(w, k, vm) ==
  ProvisionVMOp([ w EXCEPT !.factory.reading = @ \ {k},
                           !.factory.reprovd[k] = Len(w.provs) + 1 ],
                w.factory.saved[k], vm)

\* the methods of class RPCServer
RPCServerMethods == { "mount", "unmount", "listen", "close" }

\* an invocation of shutdownVM(id): st its progress, err what it throws.
\* For the properties: known is whether the registry held id when it was
\* invoked
NewShutdown(w, id) ==
  [ id |-> id, st |-> "run", err |-> << >>, known |-> id \in w.factory.VMs ]

FailShutdown(w, k, err) ==
  [ w EXCEPT !.factory.shuts[k].st = "failed",
             !.factory.shuts[k].err = << err >> ]

\* shutdownVM(id): this.rpcServer.closeNamespace('/' + id), then
\* await this.VMs[id].close().  RPCServer has no method closeNamespace, so
\* the first statement throws and the close of the child is not reached
ShutdownVMOp(w, id) ==
  LET f == w.factory
      k == Len(f.shuts) + 1
      w0 == [ w EXCEPT !.factory.shuts = Append(@, NewShutdown(w, id)) ]
  IN IF ~f.rpcServer
       THEN FailShutdown(w0, k, "TypeError")       \* this.rpcServer is null
     ELSE IF "closeNamespace" \notin RPCServerMethods
       THEN FailShutdown(w0, k, "TypeError")       \* not a function
     ELSE IF id \notin f.VMs
       THEN FailShutdown(w0, k, "TypeError")       \* this.VMs[id] is undefined
     ELSE [ CloseOp(w0, id) EXCEPT !.factory.shuts[k].st = "close" ]

\* vmFactory.close(): VMFactory does not override close, so this is VM.close
\* on the factory's own files archive and call log, up to its first await
FactoryCloseLog(w) ==
  IF w.factory.callLog
    THEN [ w EXCEPT !.factory.closing = "log" ]
    ELSE [ w EXCEPT !.factory.closing = "done",
                    !.factory.closeReturned = TRUE ]

FactoryCloseOp(w) ==
  LET w1 == [ w EXCEPT !.factory.hasClosed = TRUE ]
  IN IF w.factory.hasClosed THEN [ w EXCEPT !.factory.closeReturned = TRUE ]
     ELSE IF w.factory.filesArchive
       THEN [ w1 EXCEPT !.factory.closing = "archive" ]
     ELSE FactoryCloseLog(w1)

\* the factory's filesArchive._close() has resolved
FactoryCloseArchiveDoneOp(w) ==
  FactoryCloseLog([ w EXCEPT !.factory.filesArchive = FALSE ])

\* the factory's callLog.close() has resolved; emit 'close'
FactoryCloseLogDoneOp(w) ==
  [ w EXCEPT !.factory.callLog = FALSE, !.factory.closing = "done",
             !.factory.closeReturned = TRUE ]

(* ------------------------------- actions ------------------------------- *)

RpcCallsIssued == Cardinality({ i \in 1..Len(calls) : calls[i].origin = "rpc" })

Deploy(vm, dir, code, url) ==
  /\ ~exited
  /\ ~vms[vm].exists
  /\ Commit(DeployOp(World, vm, dir, code, url))

Mount(path, vm) ==
  /\ ~exited
  /\ vms[vm].hasEvaluated
  /\ mounts[path].vm = NoVM
  /\ Commit(MountOp(World, path, vm))

QueueRPCCall(path, methodName, args, userId) ==
  /\ ~exited
  /\ mounts[path].vm # NoVM
  /\ methodName \in mounts[path].registered
  /\ Commit(QueueRPCCallOp(World, path, methodName, args, userId))

\* the I/O a guest method awaits completes; ok is whether it succeeded
GuestStepOp(w, id, ok) ==
  LET c == w.calls[id]
      v == w.vms[c.vm]
      ops == GuestOps(v.code, c.methodName, c.args)
      op == ops[c.pc]
      w1 == IF op.op = "write"
              THEN [ w EXCEPT !.disk[v.dir].version = @ + 1,
                              !.disk[v.dir].files[op.path] = op.data,
                              !.calls[id].muts = @ + 1 ]
              ELSE w
  IN IF ~ok
       THEN AppendCall(w, id, << >>, << "closed" >>)   \* the guest method rejects
     ELSE IF c.pc = Len(ops)
       THEN GuestReturn(w1, id)
     ELSE [ w1 EXCEPT !.calls[id].pc = c.pc + 1 ]

\* a write succeeds on an open archive, fails on a closed one, and may do
\* either while the archive is closing
WriteOutcomes(v) ==
  IF ~v.hasClosed THEN { TRUE }
  ELSE IF v.filesArchive THEN { TRUE, FALSE }
  ELSE { FALSE }

GuestStep(id, ok) ==
  /\ ~exited
  /\ id \in 1..Len(calls)
  /\ calls[id].st = "guest"
  /\ LET v == vms[calls[id].vm]
         op == GuestOps(v.code, calls[id].methodName, calls[id].args)[calls[id].pc]
     IN ok \in (IF op.op = "write" THEN WriteOutcomes(v) ELSE { TRUE })
  /\ Commit(GuestStepOp(World, id, ok))

\* the append of the call entry is durable: executeCall returns or throws
AppendDone(id) ==
  /\ ~exited
  /\ id \in 1..Len(calls)
  /\ calls[id].st = "append"
  /\ Commit(Finish(World, id))

Close(vm) ==
  /\ ~exited
  /\ vms[vm].exists
  /\ ~vms[vm].hasClosed
  /\ Commit(CloseOp(World, vm))

\* close is invoked on a VM on which it was invoked before
CloseAgain(vm) ==
  /\ ~exited
  /\ vms[vm].exists
  /\ vms[vm].hasClosed
  /\ ~vms[vm].closeReturned
  /\ Commit(CloseOp(World, vm))

CloseArchiveDone(vm) ==
  /\ ~exited
  /\ vms[vm].closing = "archive"
  /\ Commit(CloseArchiveDoneOp(World, vm))

CloseLogDone(vm) ==
  /\ ~exited
  /\ vms[vm].closing = "log"
  /\ Commit(CloseLogDoneOp(World, vm))

\* a VM has no call queued, running or being logged
Quiescent(vm) ==
  \A i \in 1..Len(calls) :
    calls[i].vm = vm => calls[i].st \in {"done", "rejected"}

\* a second VM object is deployed over the directory of a closed one
Redeploy(vm, dir, code, url) ==
  /\ \E v \in VMIds : vms[v].exists /\ vms[v].dir = dir
  /\ \A v \in VMIds : vms[v].exists /\ vms[v].dir = dir => vms[v].closing = "done"
  /\ Deploy(vm, dir, code, url)

\* a client replays the call log of a vm at rest into a fresh directory
FromCallLog(src, assertUrl, vm, dir) ==
  /\ ~exited
  /\ replay.pc = "idle"
  /\ vms[src].callLog
  /\ Quiescent(src)
  /\ ~vms[vm].exists
  /\ disk[dir] = EmptyDir
  /\ Commit(FromCallLogOp(World, disk[vms[src].dir].log, assertUrl, vm, dir))

DeployFresh == \E code \in Scripts : Deploy("vm1", "d1", code, NoUrl)

MountVM == \E p \in TestPaths : Mount(p, "vm1")

\* a client issues one of the invocations `inputs`, at most n in a run
ClientCall(n, inputs) ==
  /\ replay.pc = "idle"
  /\ RpcCallsIssued < n
  /\ \E p \in MountPaths, in \in inputs : QueueRPCCall(p, in[1], in[2], in[3])

RpcCall == ClientCall(MaxCalls, RpcInputs)

RpcCallLife == ClientCall(MaxLifeCalls, LifeInputs)

RpcCallReplay == ClientCall(MaxReplayCalls, RpcInputs)

RpcCallRandom == ClientCall(MaxRandomCalls, RandomInputs)

RpcCallQueue == ClientCall(MaxQueueCalls, QueueInputs)

RpcCallClose == ClientCall(MaxCloseCalls, LifeInputs)

\* the host's random generator moves on
Entropy ==
  /\ ~exited
  /\ Commit([ World EXCEPT !.entropy = 1 - @ ])

GuestIO == \E id \in 1..Len(calls), ok \in BOOLEAN : GuestStep(id, ok)

LogIO == \E id \in 1..Len(calls) : AppendDone(id)

\* one vm, deployed into a fresh directory, mounted and called over RPC
Next ==
  \/ DeployFresh
  \/ MountVM
  \/ RpcCall
  \/ GuestIO
  \/ LogIO

Spec == Init /\ [][Next]_vars

CloseVM == \E vm \in VMIds : Close(vm)

CloseVMAgain == \E vm \in VMIds : CloseAgain(vm)

CloseArchiveIO == \E vm \in VMIds : CloseArchiveDone(vm)

CloseLogIO == \E vm \in VMIds : CloseLogDone(vm)

\* the url given to deploy: none, the url of the archive, or another one
RedeployVM ==
  \E code \in Scripts, url \in {NoUrl, disk["d1"].url, -1} :
    Redeploy("vm2", "d1", code, url)

\* the same, with close and a second VM object deployed over the directory
NextLife ==
  \/ DeployFresh
  \/ MountVM
  \/ RpcCallLife
  \/ GuestIO
  \/ LogIO
  \/ CloseVM
  \/ CloseArchiveIO
  \/ CloseLogIO
  \/ RedeployVM

SpecLife == Init /\ [][NextLife]_vars

\* the assertion given to fromCallLog: the url of the archive, or another one
ReplayVM == \E a \in {disk["d1"].url, -1} : FromCallLog("vm1", a, "vm2", "d2")

\* the same as Spec, and the log of vm1 replayed into vm2
NextReplay ==
  \/ DeployFresh
  \/ MountVM
  \/ RpcCallReplay
  \/ GuestIO
  \/ LogIO
  \/ ReplayVM

SpecReplay == Init /\ [][NextReplay]_vars

\* a vm on which close is invoked more than once
NextClose ==
  \/ DeployFresh
  \/ MountVM
  \/ RpcCallClose
  \/ GuestIO
  \/ LogIO
  \/ CloseVM
  \/ CloseVMAgain
  \/ CloseArchiveIO
  \/ CloseLogIO

SpecClose == Init /\ [][NextClose]_vars

\* the same as SpecReplay, for a guest that calls System.test.random
NextRandom ==
  \/ DeployFresh
  \/ MountVM
  \/ RpcCallRandom
  \/ GuestIO
  \/ LogIO
  \/ ReplayVM
  \/ Entropy

SpecRandom == Init /\ [][NextRandom]_vars

\* the same as Spec, with as many calls as it takes to fill the queue
NextQueue ==
  \/ DeployFresh
  \/ MountVM
  \/ RpcCallQueue
  \/ GuestIO
  \/ LogIO

SpecQueue == Init /\ [][NextQueue]_vars

\* new VMFactory(code, {maxVMs})
NewFactory(maxVMs) ==
  /\ ~exited
  /\ ~factory.exists
  /\ Commit([ World EXCEPT !.factory = [ NoFactory EXCEPT !.exists = TRUE,
                                                         !.maxVMs = maxVMs ] ])

\* vmFactory.deploy({dir, title}): VM.deploy sets this.dir
FactoryDeploy ==
  /\ ~exited
  /\ factory.exists
  /\ factory.dir = NoDir
  /\ Commit([ World EXCEPT !.factory.dir = "factory",
                            !.factory.filesArchive = TRUE,
                            !.factory.callLog = TRUE ])

\* vmFactory.setRPCServer(rpcServer)
SetRPCServer ==
  /\ ~exited
  /\ factory.exists
  /\ ~factory.rpcServer
  /\ Commit([ World EXCEPT !.factory.rpcServer = TRUE ])

\* vmFactory.provisionVM({code, title}); vm is the id of the VM it constructs
ProvisionVM(code, vm) ==
  /\ ~exited
  /\ factory.exists
  /\ Len(provs) < MaxProvisions
  /\ ~vms[vm].exists
  /\ Commit(ProvisionVMOp(World, code, vm))

\* the deploy that a provisionVM awaits has resolved
ProvisionDeployed(k) ==
  /\ ~exited
  /\ k \in 1..Len(provs)
  /\ provs[k].st = "deploy"
  /\ Commit(ProvisionDeployedOp(World, k))

CreateFactory == \E maxVMs \in MaxVMsInputs : NewFactory(maxVMs)

Provision == \E code \in CodeInputs, vm \in VMIds : ProvisionVM(code, vm)

ProvisionIO == \E k \in 1..Len(provs) : ProvisionDeployed(k)

\* the host closes a child it got from getVM(id)
CloseChild == \E vm \in factory.VMs : Close(vm)

\* a factory, the children it provisions, and their close
NextFactory ==
  \/ CreateFactory
  \/ FactoryDeploy
  \/ SetRPCServer
  \/ Provision
  \/ ProvisionIO
  \/ CloseChild
  \/ CloseArchiveIO
  \/ CloseLogIO
  \/ GuestIO
  \/ LogIO

SpecFactory == Init /\ [][NextFactory]_vars

\* vmFactory.shutdownVM(id)
ShutdownVM(id) ==
  /\ ~exited
  /\ factory.exists
  /\ Len(factory.shuts) < MaxShutdowns
  /\ Commit(ShutdownVMOp(World, id))

Shutdown == \E id \in VMIds : ShutdownVM(id)

\* vmFactory.close()
CloseFactory ==
  /\ ~exited
  /\ factory.exists
  /\ ~factory.hasClosed
  /\ Commit(FactoryCloseOp(World))

FactoryCloseArchiveIO ==
  /\ ~exited
  /\ factory.closing = "archive"
  /\ Commit(FactoryCloseArchiveDoneOp(World))

FactoryCloseLogIO ==
  /\ ~exited
  /\ factory.closing = "log"
  /\ Commit(FactoryCloseLogDoneOp(World))

\* the codes given to provisionVM when the factory is shut down or closed
ProvisionChild == \E code \in { "A", "C" }, vm \in VMIds : ProvisionVM(code, vm)

\* a factory, the children it provisions, shutdownVM and the factory's close
NextShutdown ==
  \/ CreateFactory
  \/ FactoryDeploy
  \/ SetRPCServer
  \/ ProvisionChild
  \/ ProvisionIO
  \/ Shutdown
  \/ CloseFactory
  \/ FactoryCloseArchiveIO
  \/ FactoryCloseLogIO
  \/ GuestIO
  \/ LogIO

SpecShutdown == Init /\ [][NextShutdown]_vars

\* rpcServer.mount(path, vm) of the one VM, under either path
MountPath == \E p \in MountPaths : Mount(p, "vm1")

RpcCallMounts == ClientCall(MaxMountCalls, LifeInputs)

\* one VM mounted under up to two paths, and calls through both
NextMounts ==
  \/ DeployFresh
  \/ MountPath
  \/ RpcCallMounts
  \/ GuestIO
  \/ LogIO

SpecMounts == Init /\ [][NextMounts]_vars

\* VM.fromCallLog(callLog, {filesArchiveUrl}, {dir}) of a log the host holds
FromGivenLog(log, assertUrl, vm, dir) ==
  /\ ~exited
  /\ replay.pc = "idle"
  /\ ~vms[vm].exists
  /\ disk[dir] = EmptyDir
  /\ Commit(FromCallLogOp(World, log, assertUrl, vm, dir))

ReplayGiven ==
  \E log \in GivenLogs, a \in { GivenUrl, -1 } :
    FromGivenLog(log, a, "vm2", "d2")

\* fromCallLog of one given log, well-formed or not
NextGiven ==
  \/ ReplayGiven
  \/ GuestIO
  \/ LogIO

SpecGiven == Init /\ [][NextGiven]_vars

RpcCallGuest == ClientCall(MaxGuestCalls, GuestInputs)

\* the same as Spec, with calls of the methods that throw or write twice
NextGuest ==
  \/ DeployFresh
  \/ MountVM
  \/ RpcCallGuest
  \/ GuestIO
  \/ LogIO

SpecGuest == Init /\ [][NextGuest]_vars

\* vmFactory.reprovisionSavedVMs() after a restart of the host
Reprovision ==
  /\ ~exited
  /\ factory.exists
  /\ factory.dir # NoDir
  /\ factory.reprov = "no"
  /\ \E saved \in SavedInputs : Commit(ReprovisionOp(World, saved))

ReprovisionReaddirIO ==
  /\ ~exited
  /\ factory.reprov = "readdir"
  /\ Commit(ReprovisionReaddirDoneOp(World))

ReprovisionReadFileIO ==
  /\ ~exited
  /\ \E k \in factory.reading, vm \in VMIds :
       /\ ~vms[vm].exists
       /\ Commit(ReprovisionReadFileDoneOp(World, k, vm))

\* a factory that reprovisions its saved children
NextReprovision ==
  \/ CreateFactory
  \/ FactoryDeploy
  \/ SetRPCServer
  \/ Reprovision
  \/ ReprovisionReaddirIO
  \/ ReprovisionReadFileIO
  \/ ProvisionIO
  \/ GuestIO
  \/ LogIO

SpecReprovision == Init /\ [][NextReprovision]_vars

RpcCallSettle == ClientCall(MaxSettleCalls, LifeInputs)

\* a mounted VM that is called and closed
NextSettle ==
  \/ DeployFresh
  \/ MountVM
  \/ RpcCallSettle
  \/ GuestIO
  \/ LogIO
  \/ CloseVM
  \/ CloseArchiveIO
  \/ CloseLogIO

\* a guest method is suspended at an await: GuestIO is enabled
GuestEnabled == ~exited /\ \E i \in 1..Len(calls) : calls[i].st = "guest"

\* an append to the log is in flight: LogIO is enabled
LogEnabled == ~exited /\ \E i \in 1..Len(calls) : calls[i].st = "append"

\* the I/O that a guest method awaits terminates: weak fairness of GuestIO,
\* written out with the state predicate that ENABLED <<GuestIO>>_vars equals
FairGuestIO == []<>(~GuestEnabled) \/ []<><<GuestIO>>_vars

\* the append to the log terminates: weak fairness of LogIO, written out
FairLogIO == []<>(~LogEnabled) \/ []<><<LogIO>>_vars

SpecSettle == Init /\ [][NextSettle]_vars /\ FairGuestIO /\ FairLogIO

\* the codes given to provisionVM in the runs that watch the registry
ProvisionRegistry ==
  \E code \in { "A", "" }, vm \in VMIds : ProvisionVM(code, vm)

\* a factory whose children are provisioned, shut down and closed, also
\* closed again
NextRegistry ==
  \/ CreateFactory
  \/ FactoryDeploy
  \/ SetRPCServer
  \/ ProvisionRegistry
  \/ ProvisionIO
  \/ Shutdown
  \/ CloseChild
  \/ CloseVMAgain
  \/ CloseArchiveIO
  \/ CloseLogIO

SpecRegistry == Init /\ [][NextRegistry]_vars

(* ------------------------------ verifier ------------------------------- *)

\* Verifier.compareLogs(A, B): equal length and equal entries.  The init
\* entries are compared on type and code: each names the archive of its own
\* vm, and the logs of a vm and of its replay pass the comparison
CompareLogs(a, b) ==
  /\ Len(a) = Len(b)
  /\ \A k \in 1..Len(a) :
       /\ a[k].type = b[k].type
       /\ IF a[k].type = "init" THEN a[k].code = b[k].code ELSE a[k] = b[k]

\* Verifier.compareArchives(A, B): equal versions, equal content at every path
CompareArchives(a, b) ==
  /\ a.version = b.version
  /\ \A p \in FilePaths : a.files[p] = b.files[p]

(* ------------------------------ properties ----------------------------- *)

CallIds == 1..Len(calls)

RpcIds == { i \in CallIds : calls[i].origin = "rpc" }

\* executeCall has started for the call and has not settled
Running(i) == calls[i].st \in {"guest", "append"}

InSeq(s, x) == \E k \in 1..Len(s) : s[k] = x

Pos(s, x) == CHOOSE k \in 1..Len(s) : s[k] = x

\* the sequence numbers (from 1) at which the entry of call i stands
EntriesOf(i) ==
  LET r == disk[vms[calls[i].vm].dir].rec
  IN { k \in 1..Len(r) : r[k] = i }

LogOf(i) == disk[vms[calls[i].vm].dir].log

\* C1: of the calls that arrive at one mount, at most one is active at any
\* instant, and it is the mount's activeCall: no queued call is started
\* before the previous call's method has returned and its entry is appended.
C1_OneActiveCall ==
  \A p \in MountPaths :
    LET act == { i \in RpcIds : calls[i].path = p /\ Running(i) }
    IN /\ Cardinality(act) <= 1
       /\ \A i \in act : mounts[p].activeCall = i
       /\ \A k \in 1..Len(mounts[p].callQueue) :
            calls[mounts[p].callQueue[k]].st = "queued"

\* a call arrived while an earlier one is suspended inside the guest
C1_Witness ==
  \E p \in MountPaths :
    /\ mounts[p].activeCall # NoCall
    /\ calls[mounts[p].activeCall].st = "guest"
    /\ mounts[p].callQueue # << >>

\* C2: of two calls accepted on the same mount, the one accepted first
\* starts its guest method first and has the smaller sequence number.
C2_QueueOrder ==
  \A a \in RpcIds, b \in RpcIds :
    ( /\ a < b
      /\ calls[a].path = calls[b].path
      /\ calls[a].st # "rejected"
      /\ calls[b].st # "rejected" )
    => LET r == disk[vms[calls[b].vm].dir].rec
       IN /\ InSeq(started, b) =>
               InSeq(started, a) /\ Pos(started, a) < Pos(started, b)
          /\ InSeq(r, b) => InSeq(r, a) /\ Pos(r, a) < Pos(r, b)

\* two calls were queued behind an active call, and all are logged
C2_Witness ==
  \E a \in RpcIds, b \in RpcIds :
    /\ a < b
    /\ calls[a].waited /\ calls[b].waited
    /\ calls[a].st = "done" /\ calls[b].st = "done"
    /\ EntriesOf(a) # {} /\ EntriesOf(b) # {}

\* C3: every executeCall on a deployed vm appends exactly one call entry
\* {userId, methodName, args, res, err, filesVersion}, whether the method
\* returned or threw, and only after the method has completed; the log grows
\* by one per executeCall.
C3_OneEntryPerCall ==
  /\ \A i \in CallIds :
       IF calls[i].st \in {"append", "done"}
         THEN /\ Cardinality(EntriesOf(i)) = 1
              /\ \A k \in EntriesOf(i) :
                   LogOf(i)[k] = CallEntry(calls[i], calls[i].res, calls[i].err,
                                           LogOf(i)[k].filesVersion)
         ELSE EntriesOf(i) = {}
  /\ \A d \in Dirs :
       disk[d].log # << >> =>
         Len(disk[d].log) =
           1 + Cardinality({ i \in CallIds : /\ vms[calls[i].vm].dir = d
                                             /\ calls[i].st \in {"append", "done"} })

\* a call that threw and a call that returned are both logged
C3_Witness ==
  \E i \in CallIds, j \in CallIds :
    /\ calls[i].st = "done" /\ calls[i].err = << "fail" >> /\ EntriesOf(i) # {}
    /\ calls[j].st = "done" /\ calls[j].res # << >> /\ EntriesOf(j) # {}

\* C4: filesVersion is non-decreasing along the call entries of every log.
C4_VersionMonotonic ==
  \A d \in Dirs :
    \A k \in 3..Len(disk[d].log) :
      disk[d].log[k].filesVersion >= disk[d].log[k - 1].filesVersion

\* an entry with a greater filesVersion follows one logged while another
\* call was still running
C4_Witness ==
  \E d \in Dirs :
    \E k \in 3..Len(disk[d].log) :
      /\ disk[d].log[k].filesVersion > disk[d].log[k - 1].filesVersion
      /\ calls[disk[d].rec[k]].origin = "init"

\* C5: the filesVersion of an entry is the version of the previous entry (1
\* right after deploy) plus the number of successful mutating System.files
\* operations of that call.
C5_VersionDelta ==
  \A d \in Dirs :
    \A k \in 2..Len(disk[d].log) :
      disk[d].log[k].filesVersion =
        (IF k = 2 THEN 1 ELSE disk[d].log[k - 1].filesVersion)
          + calls[disk[d].rec[k]].muts

\* C6: entry 0 of the log of every deployed vm is the init entry with the
\* url of the vm's files archive and the vm's code.
C6_InitMatchesVM ==
  \A v \in VMIds :
    (vms[v].callLog /\ vms[v].filesArchive) =>
      /\ disk[vms[v].dir].log # << >>
      /\ disk[vms[v].dir].log[1] = InitEntry(vms[v].code, disk[vms[v].dir].url)

\* C7: sequence 0 of a log is an init entry, every later entry is a call
\* entry, and the log of a deployed vm is not empty.
C7_InitOnlyFirst ==
  /\ \A d \in Dirs :
       \A k \in 1..Len(disk[d].log) :
         disk[d].log[k].type = (IF k = 1 THEN "init" ELSE "call")
  /\ \A v \in VMIds : vms[v].callLog => disk[vms[v].dir].log # << >>

\* a second VM object reopened the directory of a closed one, and the log
\* holds calls of both
C7_Witness ==
  /\ vms["vm1"].closing = "done"
  /\ vms["vm2"].callLog
  /\ vms["vm2"].dir = vms["vm1"].dir
  /\ \E i \in CallIds, j \in CallIds :
       /\ calls[i].vm = "vm1" /\ EntriesOf(i) # {}
       /\ calls[j].vm = "vm2" /\ EntriesOf(j) # {}

\* C8: when the guest exports init, the entry of the init call of deploy is
\* at sequence 1 of the fresh log, ahead of the entry of every other call.
C8_InitAtSeq1 ==
  \A v \in VMIds :
    ( /\ vms[v].callLog
      /\ "init" \in ExportNames(vms[v].code)
      /\ Len(disk[vms[v].dir].log) >= 2 )
    => /\ disk[vms[v].dir].log[2].methodName = "init"
       /\ calls[disk[vms[v].dir].rec[2]].origin = "init"

\* C9: the log of the vm rebuilt by fromCallLog from the log of a vm passes
\* compareLogs against it.
C9_ReplayLogsEqual ==
  (replay.pc = "done" /\ Quiescent("vm2")) =>
    CompareLogs(disk["d1"].log, disk["d2"].log)

\* C10: the archive of the vm rebuilt by fromCallLog has the version and the
\* content of the original, so compareArchives passes; it fails when the
\* versions differ.
C10_ReplayArchivesEqual ==
  /\ (replay.pc = "done" /\ Quiescent("vm2")) =>
       CompareArchives(disk["d1"], disk["d2"])
  /\ disk["d1"].version # disk["d2"].version =>
       ~CompareArchives(disk["d1"], disk["d2"])

\* the call of the original vm that the replayed call i re-executes: the
\* k-th call of the replay loop is entry k of the original log
Replayed(i) ==
  disk["d1"].rec[1 + Cardinality({ j \in 1..i : calls[j].origin = "replay" })]

\* C11: when the replay is over and a call re-executed by fromCallLog returned
\* or threw something else than the original call did, or was logged with
\* another filesVersion, compareLogs of the two logs fails.
C11_NondeterminismDetected ==
  ( /\ replay.pc = "done"
    /\ \E i \in CallIds :
         /\ calls[i].origin = "replay"
         /\ calls[i].logged
         /\ \/ calls[i].res # calls[Replayed(i)].res
            \/ calls[i].err # calls[Replayed(i)].err
            \/ \E k \in EntriesOf(i), l \in EntriesOf(Replayed(i)) :
                 LogOf(i)[k].filesVersion # LogOf(Replayed(i))[l].filesVersion )
  => ~CompareLogs(disk["d1"].log, disk["d2"].log)

\* the replay of a guest without init is over, and its call of random did
\* not return what the original call returned
C11_Witness ==
  /\ replay.pc = "done"
  /\ Quiescent("vm2")
  /\ Len(disk["d1"].log) = Len(disk["d2"].log)
  /\ \E i \in CallIds :
       /\ calls[i].origin = "replay"
       /\ calls[i].methodName = "random"
       /\ calls[i].res # calls[Replayed(i)].res

\* C12: fromCallLog given a filesArchiveUrl that is not the one of the init
\* entry fails, and then no vm was constructed or deployed, no guest code was
\* evaluated or executed, and no archive or call log was created.
C12_AssertionMismatch ==
  ( /\ replay.pc # "idle"
    /\ replay.assertion # disk["d1"].log[1].filesArchiveUrl )
  => /\ replay.pc = "failed"
     /\ vms["vm2"] = NoVMObject
     /\ disk["d2"] = EmptyDir
     /\ \A i \in CallIds : calls[i].vm # "vm2" /\ calls[i].origin # "replay"

\* fromCallLog was given another url with a log that holds calls
C12_Witness ==
  /\ replay.pc = "failed"
  /\ replay.assertion = -1
  /\ Len(disk["d1"].log) >= 2

\* C13: however often close is invoked on a vm, also while an earlier close
\* is in progress, the archive and the log are each closed once, `close` is
\* emitted once, and once an invocation of close has completed both
\* vm.filesArchive and vm.callLog are null.
C13_CloseIdempotent ==
  \A v \in VMIds :
    /\ vms[v].closedArchive <= 1
    /\ vms[v].closedLog <= 1
    /\ vms[v].closeEvents <= 1
    /\ vms[v].closeReturned => ~vms[v].filesArchive /\ ~vms[v].callLog

\* the call is in the queue of a mount or is its active call
Pending(i) ==
  \E p \in MountPaths :
    mounts[p].activeCall = i \/ InSeq(mounts[p].callQueue, i)

\* C14: an RPC invocation of `init` is rejected with the method-not-supported
\* error; it is never queued, the guest's init is not executed by it and no
\* entry is appended for it; the vm still runs init once, at deploy, when the
\* guest exports it.
C14_InitNotExposed ==
  /\ \A i \in RpcIds :
       calls[i].methodName = "init" =>
         /\ calls[i].st = "rejected"
         /\ calls[i].err = << "not supported" >>
         /\ ~Pending(i)
         /\ ~InSeq(started, i)
         /\ EntriesOf(i) = {}
  /\ \A v \in VMIds :
       (vms[v].hasEvaluated /\ "init" \in ExportNames(vms[v].code)) =>
         Cardinality({ k \in 1..Len(started) :
                         /\ calls[started[k]].vm = v
                         /\ calls[started[k]].methodName = "init" }) = 1

\* C15: the method names registered under the path of a mount, and the
\* methods of its handshake, are both the names of the function exports of
\* the guest that are not blacklisted.
C15_RegisteredMethods ==
  \A p \in MountPaths :
    mounts[p].vm # NoVM =>
      LET code == vms[mounts[p].vm].code
          callable == { n \in ExportNames(code) :
                          IsFunction(code, n) /\ n \notin RPC_METHODS_BLACKLIST }
      IN /\ mounts[p].registered = callable
         /\ mounts[p].methods = callable

\* C16: the callQueue of a mount never holds more than MAX_QUEUE_LENGTH calls.
C16_QueueBounded ==
  \A p \in MountPaths : Len(mounts[p].callQueue) <= MAX_QUEUE_LENGTH

\* a call rejected with the capacity error
CapacityRejected(c) == c.st = "rejected" /\ c.err = << "capacity" >>

\* C17: a call that queueRPCCall rejects with the capacity error changes
\* neither callQueue nor activeCall, runs no guest method and appends no
\* entry, in the step that rejects it and ever after.
C17_CapacityRejection ==
  /\ [](\A i \in RpcIds :
          CapacityRejected(calls[i]) =>
            ~Pending(i) /\ ~InSeq(started, i) /\ EntriesOf(i) = {})
  /\ [][ (/\ Len(calls') = Len(calls) + 1
          /\ CapacityRejected(calls'[Len(calls')]))
        => (mounts' = mounts /\ started' = started /\ disk' = disk /\ vms' = vms) ]_vars

\* a call was rejected with the capacity error while another call was active
C17_Witness ==
  \E i \in RpcIds, p \in MountPaths :
    /\ CapacityRejected(calls[i])
    /\ mounts[p].activeCall # NoCall
    /\ Len(mounts[p].callQueue) > MAX_QUEUE_LENGTH

\* C18: while the method of a call is suspended, and so whenever it resumes
\* and reads it, System.caller.id is the userId the call was made with.
C18_CallerContext ==
  \A i \in CallIds :
    calls[i].st = "guest" =>
      SystemCallerId(World, calls[i].vm) = calls[i].userId

C20_MaxVMs ==
  factory.maxVMs # << >> =>
    /\ factory.numVMs <= factory.maxVMs[1]
    /\ \A k \in 1..Len(provs) :
         provs[k].n0 >= factory.maxVMs[1] =>
           provs[k].st = "failed" /\ provs[k].err = << "capacity" >>

\* C21: a completed shutdownVM(id) of a registered child leaves no mount at
\* '/' + id, the child closed, out of the registry and numVMs one lower; a
\* shutdownVM of an id the registry does not hold fails and changes nothing
C21_ShutdownVM ==
  \A k \in 1..Len(factory.shuts) :
    LET s == factory.shuts[k]
    IN IF s.known
         THEN /\ s.st # "failed"
              /\ s.st = "done" =>
                    /\ mounts[ChildPath(s.id)].vm = NoVM
                    /\ vms[s.id].hasClosed
                    /\ s.id \notin factory.VMs
         ELSE s.st = "failed"

\* C24: when vmFactory.close() completes, every child the registry held has
\* been closed, the registry is empty and numVMs is 0
C24_FactoryCloseClosesChildren ==
  [][ (~factory.closeReturned /\ factory'.closeReturned) =>
        /\ factory'.VMs = {}
        /\ factory'.numVMs = 0
        /\ \A vm \in factory.VMs : vms'[vm].hasClosed ]_vars
\* C22: a call that is queued and not yet active when its VM has been closed
\* is cancelled: its guest method is never started, and it leaves the queue
\* only by failing with a closed error
C22_QueuedCancelledOnClose ==
  [][ \A i \in RpcIds :
        (calls[i].st = "queued" /\ vms[calls[i].vm].hasClosed) =>
          /\ ~InSeq(started', i)
          /\ calls'[i].st \in { "queued", "rejected" }
          /\ calls'[i].st = "rejected" => calls'[i].err = << "closed" >> ]_vars

\* C23: close waits for the active call: while a call's guest method is
\* executing or its record is being appended, no step closes the files
\* archive or the call log of its VM
C23_CloseWaitsForActiveCall ==
  [][ \A i \in RpcIds :
        Running(i) =>
          /\ vms'[calls[i].vm].closedArchive = vms[calls[i].vm].closedArchive
          /\ vms'[calls[i].vm].closedLog = vms[calls[i].vm].closedLog ]_vars
\* C25: deploy emits `ready` and resolves only after the guest's init has
\* completed and its call record has been appended
C25_ReadyAfterInit ==
  \A i \in CallIds :
    (calls[i].origin = "init" /\ vms[calls[i].vm].ready) =>
      calls[i].st = "done"

\* C26: every executeCall the system makes (init by deploy, RPC dispatch,
\* replay) starts when no earlier call on that VM is pending: at most one
\* call per VM is between its start and the append of its record
C26_NoCallWhilePending ==
  \A i, j \in CallIds :
    (Running(i) /\ Running(j) /\ calls[i].vm = calls[j].vm) => i = j
\* C27: when one VM is mounted under two paths, the calls that arrive through
\* both paths are still executed one at a time on that VM, and in the overall
\* order of their arrival
C27_OneQueuePerVM ==
  \A i, j \in RpcIds :
    (calls[i].vm = calls[j].vm /\ i < j) =>
      /\ ~(Running(i) /\ Running(j))
      /\ (InSeq(started, j) /\ calls[i].st # "rejected") =>
            (InSeq(started, i) /\ Pos(started, i) < Pos(started, j))
\* the calls the replay loop has made, and the place of call i among them
ReplayIds == { i \in CallIds : calls[i].origin = "replay" }

ReplayIndex(i) == Cardinality({ j \in ReplayIds : j <= i })

\* C28: the i-th guest invocation that the replay loop of fromCallLog makes
\* carries the methodName, args and userId of the i-th call entry of the log,
\* the guest sees that userId as the caller while it runs, and an error thrown
\* by one replayed call does not stop the replay: it makes one invocation per
\* entry, one after the other
C28_ReplayFollowsLog ==
  /\ \A i \in ReplayIds :
       LET k == ReplayIndex(i)
       IN /\ k <= Len(replay.entries)
          /\ calls[i].methodName = replay.entries[k].methodName
          /\ calls[i].args = replay.entries[k].args
          /\ calls[i].userId = replay.entries[k].userId
          /\ calls[i].st = "guest" =>
                SystemCallerId(World, calls[i].vm) = calls[i].userId
          /\ Running(i) => k = Cardinality(ReplayIds)
  /\ replay.pc = "running" => Cardinality(ReplayIds) = replay.i - 1
  /\ replay.pc = "done" => Cardinality(ReplayIds) = Len(replay.entries)

\* a replay has finished in which a call of a named user threw and a later
\* call was still replayed
C28_Witness ==
  /\ replay.pc = "done"
  /\ \E i, j \in ReplayIds :
       /\ i < j
       /\ calls[i].err # << >>
       /\ calls[j].userId = "bob"
       /\ calls[j].st = "done"
\* C29: replay executes each recorded invocation once: when fromCallLog has
\* rebuilt a VM whose guest exports init from a log L, the guest's init has
\* run on the rebuilt VM as many times as L records a call of init, and the
\* rebuilt VM's log has as many entries as L
C29_ReplayRunsEachCallOnce ==
  ( /\ replay.pc = "done"
    /\ Quiescent("vm2")
    /\ "init" \in ExportNames(vms["vm2"].code) ) =>
    LET L == disk["d1"].log
        recorded == { k \in 1..Len(L) :
                       L[k].type = "call" /\ L[k].methodName = "init" }
        runs == { i \in CallIds :
                   /\ calls[i].vm = "vm2"
                   /\ calls[i].methodName = "init"
                   /\ InSeq(started, i) }
    IN /\ Cardinality(runs) = Cardinality(recorded)
       /\ Len(disk["d2"].log) = Len(L)
\* C30: fromCallLog fails with the malformed-log error whenever the first
\* entry of the log it is given is not an init entry, also when the log has
\* no entries, and then no VM has been constructed or deployed
C30_MalformedLog ==
  ( /\ replay.pc # "idle"
    /\ \/ replay.log = << >>
       \/ Head(replay.log).type # "init" ) =>
    /\ replay.pc = "failed"
    /\ replay.err = << "Malformed call log" >>
    /\ vms["vm2"] = NoVMObject
    /\ disk["d2"] = EmptyDir
    /\ calls = << >>
\* C31: during fromCallLog an entry after the first whose type is not `call`
\* is ignored: fromCallLog does not fail because of it, and when the replay
\* is over the replay loop has made one guest invocation per call entry
C31_UnknownEntryIgnored ==
  LET L == replay.log
  IN ( /\ replay.pc # "idle"
       /\ L # << >>
       /\ Head(L).type = "init"
       /\ Head(L).filesArchiveUrl = replay.assertion
       /\ \E k \in 2..Len(L) : L[k].type # "call" ) =>
       /\ replay.pc # "failed"
       /\ replay.pc = "done" =>
             Cardinality(ReplayIds) =
               Cardinality({ k \in 2..Len(L) : L[k].type = "call" })
\* C32: the caller context slot is cleared when no call is active: in every
\* state in which no call is between its start and the append of its record
\* on a VM, System.caller.id of that VM holds no user id of an earlier call
C32_CallerCleared ==
  \A v \in VMIds :
    (vms[v].exists /\ \A i \in CallIds : calls[i].vm = v => ~Running(i)) =>
      SystemCallerId(World, v) = "undefined"
\* C33: executeCall returns the guest method's result when the method
\* returns, and fails with the thrown value whenever the method throws,
\* whatever the value (also undefined, null, 0 or '')
C33_ErrorResurfaced ==
  \A i \in CallIds :
    (calls[i].st = "done" /\ IsFunction(vms[calls[i].vm].code, calls[i].methodName)) =>
      IF GuestThrows(vms[calls[i].vm].code, calls[i].methodName)
        THEN /\ calls[i].threw
             /\ calls[i].err = GuestThrow(vms[calls[i].vm].code, calls[i].methodName)
        ELSE /\ ~calls[i].threw
             /\ calls[i].methodName = "func1" =>
                  calls[i].res = GuestResult(vms[calls[i].vm].code, "func1",
                                             calls[i].args, FALSE)
\* C34: no call record that executeCall passes to appendCall carries both a
\* result and an error: err is set only when the guest method threw and res
\* only when it returned
C34_ResOrErr ==
  \A i \in CallIds :
    calls[i].logged =>
      /\ ~(calls[i].res # << >> /\ calls[i].err # << >>)
      /\ calls[i].err # << >> =>
            GuestThrows(vms[calls[i].vm].code, calls[i].methodName)
      /\ calls[i].res # << >> =>
            ~GuestThrows(vms[calls[i].vm].code, calls[i].methodName)

\* records were passed for a call that threw, for a call that returned a
\* value, and for both in one run
C34_Witness ==
  \E i, j \in CallIds :
    /\ calls[i].logged /\ calls[i].err # << >> /\ calls[i].res = << >>
    /\ calls[j].logged /\ calls[j].res # << >> /\ calls[j].err = << >>
\* what a crash leaves of the log of directory d: the call records whose
\* append has completed; the filesVersion of the last of them, 1 (the version
\* right after deploy) when there is none
DurableCalls(d) ==
  { k \in 1..Len(disk[d].log) :
      disk[d].log[k].type = "call" /\ calls[disk[d].rec[k]].st = "done" }

LastLoggedVersion(d) ==
  IF DurableCalls(d) = {} THEN 1
  ELSE disk[d].log[CHOOSE k \in DurableCalls(d) :
                     \A j \in DurableCalls(d) : j <= k].filesVersion

\* the calls on vm that have started and whose record is not durable yet
Unlogged(vm) == { i \in CallIds : calls[i].vm = vm /\ Running(i) }

RECURSIVE SumMuts(_)
SumMuts(S) ==
  IF S = {} THEN 0
  ELSE LET i == CHOOSE x \in S : TRUE
       IN calls[i].muts + SumMuts(S \ {i})

\* C35: in a state a crash can leave behind, where a guest method has
\* executed and its record is not appended, the version of the files archive
\* exceeds the filesVersion of the last logged call record by at most one
C35_CrashGapOne ==
  \A v \in VMIds :
    (vms[v].filesArchive /\ \E i \in Unlogged(v) : calls[i].st = "append") =>
      disk[vms[v].dir].version - LastLoggedVersion(vms[v].dir) <= 1

\* C35 as it holds: the version of the files archive exceeds the
\* filesVersion of the last logged call record by at most the number of
\* mutating System.files operations of the calls not logged yet
C35_CrashGapUnlogged ==
  \A v \in VMIds :
    vms[v].filesArchive =>
      disk[vms[v].dir].version - LastLoggedVersion(vms[v].dir)
        <= SumMuts(Unlogged(v))

\* writeTwice has executed both its writes after an earlier call was logged,
\* and its own record is not durable yet
C35_Witness ==
  \E i \in Unlogged("vm1") :
    /\ calls[i].methodName = "writeTwice"
    /\ calls[i].st = "append"
    /\ calls[i].muts = 2
    /\ DurableCalls("d1") # {}
    /\ disk["d1"].version - LastLoggedVersion("d1") = 2
\* C36: close is terminal: once close has been invoked on a VM, no step
\* starts a guest method on that VM, whether the call is dispatched from a
\* mount that still references the VM or was queued before
C36_CloseTerminal ==
  [][ \A v \in VMIds :
        vms[v].hasClosed =>
          \A i \in 1..Len(calls') :
            (calls'[i].vm = v /\ InSeq(started', i)) => InSeq(started, i) ]_vars
\* C37: at the moment reprovisionSavedVMs completes, provisionVM has been
\* called and has finished for every saved record, so that every saved child
\* is deployed, registered and mounted
C37_ReprovisionComplete ==
  [][ (factory.reprov # "done" /\ factory'.reprov = "done") =>
        \A k \in 1..Len(factory'.saved) :
          /\ factory'.reprovd[k] # 0
          /\ provs'[factory'.reprovd[k]].st = "done"
          /\ provs'[factory'.reprovd[k]].vm \in factory'.VMs
          /\ mounts'[ChildPath(provs'[factory'.reprovd[k]].vm)].vm =
               provs'[factory'.reprovd[k]].vm ]_vars
\* C38: every RPC call accepted by queueRPCCall is eventually dispatched and
\* eventually settles and leaves the mount, given that guest methods and log
\* appends terminate, also behind a call whose guest method threw or whose
\* append failed: again and again all the calls accepted so far have been
\* dispatched and are settled (a settled call stays settled); and when all
\* calls have settled activeCall is null and the queue is empty
C38_CallsSettle ==
  /\ []<>(\A i \in RpcIds :
            calls[i].st # "rejected" =>
              calls[i].st = "done" /\ InSeq(started, i) /\ ~Pending(i))
  /\ []((\A i \in CallIds : calls[i].st \in {"done", "rejected"}) =>
          \A p \in MountPaths :
            mounts[p].activeCall = NoCall /\ mounts[p].callQueue = << >>)

\* a call that threw has settled, and a call that was queued behind an active
\* call has been dispatched and has settled after it
C38_Witness ==
  \E i, j \in RpcIds :
    /\ i < j
    /\ calls[i].st = "done" /\ calls[i].threw
    /\ calls[j].st = "done" /\ calls[j].waited
    /\ mounts[calls[j].path].activeCall = NoCall
\* C39: in every state of a factory numVMs is the number of entries of the
\* registry VMs, and every registered child is a deployed VM on which close
\* has not been invoked
C39_RegistryLive ==
  /\ factory.numVMs = Cardinality(factory.VMs)
  /\ \A vm \in factory.VMs :
       vms[vm].exists /\ vms[vm].hasEvaluated /\ ~vms[vm].hasClosed

\* C39 as it holds: numVMs is the number of entries of the registry, and
\* every registered child is a deployed VM whose close has not completed (its
\* `close` event is not emitted yet); a child whose close has completed is
\* not registered
C39_RegistryNotClosed ==
  /\ factory.numVMs = Cardinality(factory.VMs)
  /\ \A vm \in factory.VMs :
       /\ vms[vm].exists /\ vms[vm].hasEvaluated
       /\ vms[vm].closeEvents = 0
       /\ vms[vm].closing # "done"
  /\ \A vm \in VMIds : vms[vm].closeEvents > 0 => vm \notin factory.VMs

\* a provisionVM has failed, a child has been closed and closed again, and
\* another child, whose close is in progress, is still registered
C39_Witness ==
  /\ \E k \in 1..Len(provs) : provs[k].st = "failed"
  /\ \E vm \in VMIds :
       /\ vm \notin factory.VMs
       /\ vms[vm].closeEvents = 1
       /\ vms[vm].closeReturned
  /\ \E vm \in factory.VMs : vms[vm].closing \in {"archive", "log"}
====
